---- MODULE Spec2Model ----
(***************************************************************************)
(* Ackermann Steering Simulator (src/main.py): the Plot wrapper (bounded   *)
(* trajectory buffer with one-sided auto-scroll) and the App session       *)
(* (start / pause / reset / tick driven by Tk's event loop).               *)
(*                                                                         *)
(* Numbers.  The program computes in float64.  The model computes in       *)
(* fixed point with three decimals: every length, time, axis limit and     *)
(* radian value is an integer number of thousandths (mm, ms, mrad).  The   *)
(* slider values (degrees, m/s, zoom level) are the integers Tk's Scale    *)
(* widgets hold.  numpy's trigonometric functions are computed by their    *)
(* power series in that fixed point.                                       *)
(*                                                                         *)
(* Control flow.  Tk runs one handler at a time, but Plot.update ends in   *)
(* canvas.flush_events(), which runs Tk's update(): every event that is    *)
(* pending then (key, button, slider, expired timer) is dispatched inside  *)
(* the handler that is redrawing.  The model therefore keeps a call stack  *)
(* of handler frames; a frame whose position is just after a flush_events  *)
(* lets further events be dispatched on top of it.                         *)
(***************************************************************************)
EXTENDS Integers, Sequences, FiniteSets, TLC

VARIABLES
    running,        \* App.running
    t,              \* App.t, ms
    prev_phi,       \* App.prev_phi, mrad
    ctrl_angle,     \* value of the steering Scale, degrees
    ctrl_vel,       \* value of the velocity Scale, m/s
    ctrl_zoom,      \* value of the zoom Scale
    var_time,       \* text of the time label
    var_status,     \* text of the status label
    button_play,    \* state of the Play button
    button_pause,   \* state of the Pause button
    car,            \* App.car, a Plot
    steering,       \* App.steering, a Plot
    stack,          \* handler frames in progress, innermost first
    timers,         \* delays of the pending root.after callbacks
    nevents,        \* number of user events dispatched so far
    hist,           \* plot driver: points handed to the driven plot since its last clear
    drv,            \* plot driver: which plot is driven, and the stride of a fill
    base            \* plot driver: the driven plot's default limits at its last clear

vars == <<running, t, prev_phi, ctrl_angle, ctrl_vel, ctrl_zoom, var_time,
          var_status, button_play, button_pause, car, steering, stack,
          timers, nevents, hist, drv, base>>

appVars == <<running, t, prev_phi, ctrl_angle, ctrl_vel, ctrl_zoom, var_time,
             var_status, button_play, button_pause, stack, timers, nevents>>

-----------------------------------------------------------------------------
(* Fixed point *)

\* One unit of the program's floats is SCALE units of the model.
SCALE == 10 ^ 3

\* pi in mrad
PI == 3142

\* a / b rounded to the nearest integer, halves away from zero (b > 0)
Rnd(a, b) == IF a >= 0 THEN (2 * a + b) \div (2 * b) ELSE -((2 * (-a) + b) \div (2 * b))

\* the fixed-point product and quotient
Mul(a, b) == Rnd(a * b, SCALE)

Quo(a, b) == IF b > 0 THEN Rnd(a * SCALE, b) ELSE Rnd(-(a * SCALE), -b)

\* an angle brought into (-pi, pi]
RECURSIVE Wrap(_)
Wrap(a) == IF a > PI THEN Wrap(a - 2 * PI) ELSE IF a <= -PI THEN Wrap(a + 2 * PI) ELSE a

\* the sine series on [-pi/2, pi/2]
SinSeries(a) ==
    LET a2 == Mul(a, a)
        t3 == Rnd(Mul(a, a2), 6)
        t5 == Rnd(Mul(t3, a2), 20)
        t7 == Rnd(Mul(t5, a2), 42)
        t9 == Rnd(Mul(t7, a2), 72)
    IN  a - t3 + t5 - t7 + t9

Sin(a) ==
    LET w == Wrap(a)
    IN  IF 2 * w > PI THEN SinSeries(PI - w)
        ELSE IF 2 * w < -PI THEN SinSeries(-PI - w)
        ELSE SinSeries(w)

Cos(a) == Sin(a + PI \div 2)

Tan(a) == Quo(Sin(a), Cos(a))

\* the arctangent series; the program only takes it of tan(steering)/2, |.| <= 1/2
Arctan(a) ==
    LET a2 == Mul(a, a)
        p3 == Mul(a, a2)
        p5 == Mul(p3, a2)
        p7 == Mul(p5, a2)
        p9 == Mul(p7, a2)
    IN  a - Rnd(p3, 3) + Rnd(p5, 5) - Rnd(p7, 7) + Rnd(p9, 9)

Deg2Rad(d) == Rnd(d * PI, 180)

-----------------------------------------------------------------------------
(* Plot *)

\* the length above which addPoint drops the oldest point
MAX_POINTS == 300

\* Plot.__init__: a Plot is its two data lists, the axes' current limits
\* (ax.set_xlim / ax.set_ylim), the default limits and the scroll gap.
Plot(xlim, ylim, scroll_gap) ==
    [x |-> <<0>>, y |-> <<0>>, xlim |-> xlim, ylim |-> ylim,
     default_xlim |-> xlim, default_ylim |-> ylim, scroll_gap |-> scroll_gap]

Last(s) == s[Len(s)]

\* update with the scroll test made against the current upper limits
update_current(p) ==
    LET lastx == Last(p.x)
        lasty == Last(p.y)
        g == p.scroll_gap
        nx == IF lastx + g > p.xlim[2]
              THEN <<lastx - (p.default_xlim[2] - p.default_xlim[1] - g), lastx + g>>
              ELSE p.xlim
        ny == IF lasty + g > p.ylim[2]
              THEN <<lasty - (p.default_ylim[2] - p.default_ylim[1] - g), lasty + g>>
              ELSE p.ylim
    IN  [p EXCEPT !.xlim = nx, !.ylim = ny]

\* update with the lower limit placed on the wrong side of the point
update_sign(p) ==
    LET lastx == Last(p.x)
        lasty == Last(p.y)
        g == p.scroll_gap
        nx == IF lastx + g > p.default_xlim[2]
              THEN <<lastx + (p.default_xlim[2] - p.default_xlim[1] - g), lastx + g>>
              ELSE p.xlim
        ny == IF lasty + g > p.default_ylim[2]
              THEN <<lasty + (p.default_ylim[2] - p.default_ylim[1] - g), lasty + g>>
              ELSE p.ylim
    IN  [p EXCEPT !.xlim = nx, !.ylim = ny]

\* update with the scroll gap left out of the window's lower limit
update_width(p) ==
    LET lastx == Last(p.x)
        lasty == Last(p.y)
        g == p.scroll_gap
        nx == IF lastx + g > p.default_xlim[2]
              THEN <<lastx - (p.default_xlim[2] - p.default_xlim[1]), lastx + g>>
              ELSE p.xlim
        ny == IF lasty + g > p.default_ylim[2]
              THEN <<lasty - (p.default_ylim[2] - p.default_ylim[1]), lasty + g>>
              ELSE p.ylim
    IN  [p EXCEPT !.xlim = nx, !.ylim = ny]

\* Plot.update up to the redraw: the scroll step on each axis.
update(p) ==
    LET lastx == Last(p.x)
        lasty == Last(p.y)
        g == p.scroll_gap
        nx == IF lastx + g > p.default_xlim[2]
              THEN <<lastx - (p.default_xlim[2] - p.default_xlim[1] - g), lastx + g>>
              ELSE p.xlim
        ny == IF lasty + g > p.default_ylim[2]
              THEN <<lasty - (p.default_ylim[2] - p.default_ylim[1] - g), lasty + g>>
              ELSE p.ylim
    IN  [p EXCEPT !.xlim = nx, !.ylim = ny]

\* addPoint evicting one point too early (len >= 300)
addPoint_early(p, x, y) ==
    LET full == Len(p.x) >= MAX_POINTS
        ys == IF full THEN Tail(p.y) ELSE p.y
        xs == IF full THEN Tail(p.x) ELSE p.x
    IN  update([p EXCEPT !.x = Append(xs, x), !.y = Append(ys, y)])

\* addPoint evicting the newest x (pop() for pop(0))
addPoint_poplast(p, x, y) ==
    LET full == Len(p.x) > MAX_POINTS
        ys == IF full THEN Tail(p.y) ELSE p.y
        xs == IF full THEN SubSeq(p.x, 1, Len(p.x) - 1) ELSE p.x
    IN  update([p EXCEPT !.x = Append(xs, x), !.y = Append(ys, y)])

\* Plot.addPoint
addPoint(p, x, y) ==
    LET full == Len(p.x) > MAX_POINTS
        ys == IF full THEN Tail(p.y) ELSE p.y
        xs == IF full THEN Tail(p.x) ELSE p.x
    IN  update([p EXCEPT !.x = Append(xs, x), !.y = Append(ys, y)])

\* Plot.clear
clear(p) ==
    update([p EXCEPT !.ylim = p.default_ylim, !.xlim = p.default_xlim,
                     !.x = <<0>>, !.y = <<0>>])

\* the radius rounded down (20 // k)
CeilDiv_floor(a, k) == a \div k

\* np.ceil(20 / k) for a positive integer k
CeilDiv(a, k) == (a + k - 1) \div k

\* changeScale that also applies the new limits to the axes
changeScale_moves(p, k) ==
    LET r == CeilDiv(20, k) * SCALE
    IN  [p EXCEPT !.default_xlim = <<-r, r>>, !.default_ylim = <<-r, r>>,
                  !.xlim = <<-r, r>>, !.ylim = <<-r, r>>]

\* Plot.changeScale
changeScale(p, k) ==
    LET r == CeilDiv(20, k) * SCALE
    IN  [p EXCEPT !.default_xlim = <<-r, r>>, !.default_ylim = <<-r, r>>]

-----------------------------------------------------------------------------
(* App: constants, labels, frames *)

SIM_DT == 100

LOOP_DT == 100

INITIAL_ZOOM == 3

V0 == 3

LF == 1500

LB == 1500

\* the ranges of the three Scale widgets
ANGLE_MIN == -45

ANGLE_MAX == 45

VEL_MIN == 0

VEL_MAX == 5

ZOOM_MIN == 1

ZOOM_MAX == 4

\* Scale.set keeps the value inside the widget's range
Clamp(v, lo, hi) == IF v < lo THEN lo ELSE IF v > hi THEN hi ELSE v

DigitStr == <<"0", "1", "2", "3", "4", "5", "6", "7", "8", "9">>

RECURSIVE IntStr(_)
IntStr(n) == IF n < 10 THEN DigitStr[n + 1] ELSE IntStr(n \div 10) \o DigitStr[(n % 10) + 1]

\* "T: %.1fs" % t, for t >= 0
TimeLabel(ms) ==
    LET tenths == Rnd(ms, 100)
    IN  "T: " \o IntStr(tenths \div 10) \o "." \o DigitStr[(tenths % 10) + 1] \o "s"

\* int(v) of a float given in thousandths: truncation toward zero
Trunc(v) == IF v >= 0 THEN v \div SCALE ELSE -((-v) \div SCALE)

\* A handler in progress: which handler, the segment it executes next, for a
\* tick how it was called, and runSimulation's local `steering`.
Frame(proc, pc, src) == [proc |-> proc, pc |-> pc, src |-> src, steering |-> 0]

Top == Head(stack)

Push(f) == <<f>> \o stack

\* The frame is inside the flush_events() that ends Plot.update.
AtFlush(f) == f.proc \in {"resetSimulation", "runSimulation"} /\ f.pc \in {1, 2}

-----------------------------------------------------------------------------
(* Bounds *)

\* user events (clicks, keys, slider moves) dispatched in one run
MaxEvents == 2

\* nested handler frames
MaxDepth == 3

\* a timer callback starts a tick only while t < MaxTicks * SIM_DT
MaxTicks == 3

\* measured cycle times of a tick, thousandths of a millisecond
CycleTimes == {20500, 130500}

\* values the user drags the steering and velocity sliders to
AngleInputs == {-45, 45}

VelInputs == {0, 5}

-----------------------------------------------------------------------------
(* Initial state: App.__init__ has returned and mainloop is idle *)

InitApp ==
    /\ running = FALSE
    /\ t = 0
    /\ prev_phi = 0
    /\ ctrl_angle = 0
    /\ ctrl_vel = V0
    /\ ctrl_zoom = INITIAL_ZOOM
    /\ var_time = "T: 0s"
    /\ var_status = "Paused"
    /\ button_play = "normal"
    /\ button_pause = "disabled"
    /\ car = clear(changeScale(Plot(<<-5000, 5000>>, <<-5000, 5000>>, 5000), INITIAL_ZOOM))
    /\ steering = clear(Plot(<<0, 10000>>, <<-50000, 50000>>, 0))
    /\ stack = <<>>
    /\ timers = <<>>
    /\ nevents = 0

Init ==
    /\ InitApp
    /\ hist = <<>>
    /\ drv = [plot |-> "none", dx |-> 0, dy |-> 0]
    /\ base = <<car.default_xlim, car.default_ylim>>

-----------------------------------------------------------------------------
(* Event dispatch *)

\* Tk dispatches an event from mainloop (no handler running) or from the
\* update() that flush_events runs inside a handler.
CanDispatch == Len(stack) < MaxDepth /\ (IF stack = <<>> THEN TRUE ELSE AtFlush(Top))

UserEvent == CanDispatch /\ nevents < MaxEvents /\ nevents' = nevents + 1

\* App.pause
pause ==
    /\ var_time' = "T: 0s"
    /\ var_status' = "Paused"
    /\ button_pause' = "disabled"
    /\ button_play' = "normal"
    /\ running' = FALSE

\* The Play button: command=self.start, while the button is enabled
ClickPlay ==
    /\ UserEvent
    /\ button_play = "normal"
    /\ stack' = Push(Frame("start", 0, ""))
    /\ UNCHANGED <<running, t, prev_phi, ctrl_angle, ctrl_vel, ctrl_zoom, var_time,
                   var_status, button_play, button_pause, car, steering, timers, hist, drv, base>>

\* a Pause button that also rewinds the session
ClickPause_rewind ==
    /\ UserEvent
    /\ button_pause = "normal"
    /\ pause
    /\ t' = 0
    /\ prev_phi' = 0
    /\ UNCHANGED <<ctrl_angle, ctrl_vel, ctrl_zoom, car, steering,
                   stack, timers, hist, drv, base>>

\* The Pause button: command=self.pause, while the button is enabled
ClickPause ==
    /\ UserEvent
    /\ button_pause = "normal"
    /\ pause
    /\ UNCHANGED <<t, prev_phi, ctrl_angle, ctrl_vel, ctrl_zoom, car, steering,
                   stack, timers, hist, drv, base>>

\* App.keyPressed, 'a' and 'd'
keyPressed_ad(step) ==
    /\ UserEvent
    /\ ctrl_angle' = Clamp(ctrl_angle + step, ANGLE_MIN, ANGLE_MAX)
    /\ UNCHANGED <<running, t, prev_phi, ctrl_vel, ctrl_zoom, var_time, var_status,
                   button_play, button_pause, car, steering, stack, timers, hist, drv, base>>

\* App.keyPressed, 'r': pause() now, then resetSimulation(), then start()
keyPressed_r ==
    /\ UserEvent
    /\ pause
    /\ stack' = <<Frame("resetSimulation", 0, ""), Frame("keyPressed_r", 1, "")>> \o stack
    /\ UNCHANGED <<t, prev_phi, ctrl_angle, ctrl_vel, ctrl_zoom, car, steering,
                   timers, hist, drv, base>>

\* App.keyPressed, 'r', after resetSimulation() has returned: start()
keyPressed_r_start ==
    /\ stack # <<>> /\ Top.proc = "keyPressed_r" /\ Top.pc = 1
    /\ stack' = <<Frame("start", 0, "")>> \o Tail(stack)
    /\ UNCHANGED <<running, t, prev_phi, ctrl_angle, ctrl_vel, ctrl_zoom, var_time,
                   var_status, button_play, button_pause, car, steering, timers,
                   nevents, hist, drv, base>>

\* App.keyPressed, 's'
keyPressed_s ==
    /\ UserEvent
    /\ IF running
       THEN /\ pause
            /\ stack' = stack
       ELSE /\ stack' = Push(Frame("start", 0, ""))
            /\ UNCHANGED <<running, var_time, var_status, button_play, button_pause>>
    /\ UNCHANGED <<t, prev_phi, ctrl_angle, ctrl_vel, ctrl_zoom, car, steering,
                   timers, hist, drv, base>>

\* The user drags the steering slider
SetAngle(v) ==
    /\ UserEvent
    /\ ctrl_angle' = Clamp(v, ANGLE_MIN, ANGLE_MAX)
    /\ UNCHANGED <<running, t, prev_phi, ctrl_vel, ctrl_zoom, var_time, var_status,
                   button_play, button_pause, car, steering, stack, timers, hist, drv, base>>

\* The user drags the velocity slider
SetVel(v) ==
    /\ UserEvent
    /\ ctrl_vel' = Clamp(v, VEL_MIN, VEL_MAX)
    /\ UNCHANGED <<running, t, prev_phi, ctrl_angle, ctrl_zoom, var_time, var_status,
                   button_play, button_pause, car, steering, stack, timers, hist, drv, base>>

\* The user drags the zoom slider: the Scale's command, App.scaleChanged
scaleChanged(val) ==
    /\ UserEvent
    /\ ctrl_zoom' = val
    /\ car' = changeScale(car, val)
    /\ UNCHANGED <<running, t, prev_phi, ctrl_angle, ctrl_vel, var_time, var_status,
                   button_play, button_pause, steering, stack, timers, hist, drv, base>>

\* A root.after callback expires: Tk calls runSimulation
TimerFires(i) ==
    /\ CanDispatch
    /\ i \in 1..Len(timers)
    /\ t < MaxTicks * SIM_DT
    /\ timers' = SubSeq(timers, 1, i - 1) \o SubSeq(timers, i + 1, Len(timers))
    /\ stack' = Push(Frame("runSimulation", 0, "after"))
    /\ UNCHANGED <<running, t, prev_phi, ctrl_angle, ctrl_vel, ctrl_zoom, var_time,
                   var_status, button_play, button_pause, car, steering, nevents, hist, drv, base>>

-----------------------------------------------------------------------------
(* Handler segments *)

\* App.start up to the call of resetSimulation
start ==
    /\ stack # <<>> /\ Top.proc = "start" /\ Top.pc = 0
    /\ var_status' = "Running"
    /\ button_pause' = "normal"
    /\ button_play' = "disabled"
    /\ running' = TRUE
    /\ stack' = <<Frame("resetSimulation", 0, ""), [Top EXCEPT !.pc = 1]>> \o Tail(stack)
    /\ UNCHANGED <<t, prev_phi, ctrl_angle, ctrl_vel, ctrl_zoom, var_time, car,
                   steering, timers, nevents, hist, drv, base>>

\* App.start, after resetSimulation() has returned: runSimulation()
start_runSimulation ==
    /\ stack # <<>> /\ Top.proc = "start" /\ Top.pc = 1
    /\ stack' = <<Frame("runSimulation", 0, "start")>> \o Tail(stack)
    /\ UNCHANGED <<running, t, prev_phi, ctrl_angle, ctrl_vel, ctrl_zoom, var_time,
                   var_status, button_play, button_pause, car, steering, timers,
                   nevents, hist, drv, base>>

\* a reset that leaves the sliders where the user put them
resetSimulation_car_keeps ==
    /\ stack # <<>> /\ Top.proc = "resetSimulation" /\ Top.pc = 0
    /\ car' = clear(changeScale(car, INITIAL_ZOOM))
    /\ stack' = <<[Top EXCEPT !.pc = 1]>> \o Tail(stack)
    /\ UNCHANGED <<running, t, prev_phi, ctrl_angle, ctrl_vel, ctrl_zoom, var_time,
                   var_status, button_play, button_pause, steering, timers, nevents,
                   hist, drv, base>>

\* App.resetSimulation through car.clear(), up to its flush_events
resetSimulation_car ==
    /\ stack # <<>> /\ Top.proc = "resetSimulation" /\ Top.pc = 0
    /\ ctrl_zoom' = INITIAL_ZOOM
    /\ ctrl_angle' = 0
    /\ ctrl_vel' = V0
    /\ car' = clear(changeScale(car, INITIAL_ZOOM))
    /\ stack' = <<[Top EXCEPT !.pc = 1]>> \o Tail(stack)
    /\ UNCHANGED <<running, t, prev_phi, var_time, var_status, button_play,
                   button_pause, steering, timers, nevents, hist, drv, base>>

\* App.resetSimulation: steering.clear(), up to its flush_events
resetSimulation_steering ==
    /\ stack # <<>> /\ Top.proc = "resetSimulation" /\ Top.pc = 1
    /\ steering' = clear(steering)
    /\ stack' = <<[Top EXCEPT !.pc = 2]>> \o Tail(stack)
    /\ UNCHANGED <<running, t, prev_phi, ctrl_angle, ctrl_vel, ctrl_zoom, var_time,
                   var_status, button_play, button_pause, car, timers, nevents, hist, drv, base>>

\* App.resetSimulation: the two state variables, and return
resetSimulation_state ==
    /\ stack # <<>> /\ Top.proc = "resetSimulation" /\ Top.pc = 2
    /\ t' = 0
    /\ prev_phi' = 0
    /\ stack' = Tail(stack)
    /\ UNCHANGED <<running, ctrl_angle, ctrl_vel, ctrl_zoom, var_time, var_status,
                   button_play, button_pause, car, steering, timers, nevents, hist, drv, base>>

\* a pose step with the two axes exchanged
Pose_swapped(vel, steer, phi0, x0, y0) ==
    LET beta == Arctan(Quo(Mul(LB, Tan(steer)), LB + LF))
        dist == Mul(vel * SCALE, SIM_DT)
        phi == phi0 + Quo(Mul(Mul(dist, Cos(beta)), Tan(steer)), LB + LF)
    IN  <<phi, x0 + Mul(dist, Sin(beta + phi)), y0 + Mul(dist, Cos(beta + phi))>>

\* the pose step of runSimulation: <<phi, x, y>> from the sliders' values
Pose(vel, steer, phi0, x0, y0) ==
    LET beta == Arctan(Quo(Mul(LB, Tan(steer)), LB + LF))
        dist == Mul(vel * SCALE, SIM_DT)
        phi == phi0 + Quo(Mul(Mul(dist, Cos(beta)), Tan(steer)), LB + LF)
    IN  <<phi, x0 + Mul(dist, Cos(beta + phi)), y0 + Mul(dist, Sin(beta + phi))>>

\* App.runSimulation through car.addPoint(x, y), up to its flush_events
runSimulation_car ==
    /\ stack # <<>> /\ Top.proc = "runSimulation" /\ Top.pc = 0
    /\ LET vel == ctrl_vel
           steer == Deg2Rad(ctrl_angle)
           pose == Pose(vel, steer, prev_phi, Last(car.x), Last(car.y))
       IN  /\ prev_phi' = pose[1]
           /\ car' = addPoint(car, pose[2], pose[3])
           /\ stack' = <<[Top EXCEPT !.pc = 1, !.steering = steer]>> \o Tail(stack)
    /\ UNCHANGED <<running, t, ctrl_angle, ctrl_vel, ctrl_zoom, var_time, var_status,
                   button_play, button_pause, steering, timers, nevents, hist, drv, base>>

\* App.runSimulation: steering.addPoint(t, ctrl_angle.get()), up to its flush_events
runSimulation_steering ==
    /\ stack # <<>> /\ Top.proc = "runSimulation" /\ Top.pc = 1
    /\ steering' = addPoint(steering, t, ctrl_angle * SCALE)
    /\ stack' = <<[Top EXCEPT !.pc = 2]>> \o Tail(stack)
    /\ UNCHANGED <<running, t, prev_phi, ctrl_angle, ctrl_vel, ctrl_zoom, var_time,
                   var_status, button_play, button_pause, car, timers, nevents, hist, drv, base>>

\* a tick whose heading drifts when the cycle overran its period
runSimulation_after_lag(dt) ==
    /\ stack # <<>> /\ Top.proc = "runSimulation" /\ Top.pc = 2
    /\ var_time' = TimeLabel(t)
    /\ t' = t + SIM_DT
    /\ prev_phi' = IF dt > LOOP_DT * SCALE THEN prev_phi + 1 ELSE prev_phi
    /\ timers' = IF running THEN Append(timers, Trunc(LOOP_DT * SCALE - dt)) ELSE timers
    /\ stack' = Tail(stack)
    /\ UNCHANGED <<running, ctrl_angle, ctrl_vel, ctrl_zoom, var_status,
                   button_play, button_pause, car, steering, nevents, hist, drv, base>>

\* a tick that schedules the next one whether or not the session is running
runSimulation_after_always(dt) ==
    /\ stack # <<>> /\ Top.proc = "runSimulation" /\ Top.pc = 2
    /\ var_time' = TimeLabel(t)
    /\ t' = t + SIM_DT
    /\ timers' = Append(timers, Trunc(LOOP_DT * SCALE - dt))
    /\ stack' = Tail(stack)
    /\ UNCHANGED <<running, prev_phi, ctrl_angle, ctrl_vel, ctrl_zoom, var_status,
                   button_play, button_pause, car, steering, nevents, hist, drv, base>>

\* a tick that leaves the clock alone when the session is paused
runSimulation_after_idle(dt) ==
    /\ stack # <<>> /\ Top.proc = "runSimulation" /\ Top.pc = 2
    /\ var_time' = TimeLabel(t)
    /\ t' = IF running THEN t + SIM_DT ELSE t
    /\ timers' = IF running THEN Append(timers, Trunc(LOOP_DT * SCALE - dt)) ELSE timers
    /\ stack' = Tail(stack)
    /\ UNCHANGED <<running, prev_phi, ctrl_angle, ctrl_vel, ctrl_zoom, var_status,
                   button_play, button_pause, car, steering, nevents, hist, drv, base>>

\* App.runSimulation: the time label, t, and the next root.after; dt is the
\* measured cycle time
runSimulation_after(dt) ==
    /\ stack # <<>> /\ Top.proc = "runSimulation" /\ Top.pc = 2
    /\ var_time' = TimeLabel(t)
    /\ t' = t + SIM_DT
    /\ timers' = IF running THEN Append(timers, Trunc(LOOP_DT * SCALE - dt)) ELSE timers
    /\ stack' = Tail(stack)
    /\ UNCHANGED <<running, prev_phi, ctrl_angle, ctrl_vel, ctrl_zoom, var_status,
                   button_play, button_pause, car, steering, nevents, hist, drv, base>>

Next ==
    \/ ClickPlay
    \/ ClickPause
    \/ keyPressed_ad(5)
    \/ keyPressed_ad(-5)
    \/ keyPressed_r
    \/ keyPressed_r_start
    \/ keyPressed_s
    \/ \E v \in AngleInputs : SetAngle(v)
    \/ \E v \in VelInputs : SetVel(v)
    \/ \E k \in ZOOM_MIN..ZOOM_MAX : scaleChanged(k)
    \/ \E i \in 1..Len(timers) : TimerFires(i)
    \/ start
    \/ start_runSimulation
    \/ resetSimulation_car
    \/ resetSimulation_steering
    \/ resetSimulation_state
    \/ runSimulation_car
    \/ runSimulation_steering
    \/ \E dt \in CycleTimes : runSimulation_after(dt)

Spec == Init /\ [][Next]_vars

-----------------------------------------------------------------------------
(* The Plot class driven directly: a caller that only calls addPoint, clear *)
(* and changeScale on one of the App's two plots.                           *)

\* points appended in one run of the free driver
MaxPts == 3

\* points appended in one run of the fill driver
MaxAppends == 303

\* coordinates the free driver appends (mm for the car plot; ms and
\* thousandths of a degree for the steering plot)
Points(plot) ==
    IF plot = "car" THEN {-9000, 3000, 9000} \X {0, 3000}
    ELSE {0, 12000} \X {-45000, 45000}

\* the fill drivers: a plot and the constant step between consecutive points
\* (the car at constant velocity and heading; the steering history of a
\* constant angle, one sample per SIM_DT)
Fills ==
    {[plot |-> "car", dx |-> 300, dy |-> 0],
     [plot |-> "car", dx |-> -200, dy |-> 400],
     [plot |-> "car", dx |-> 0, dy |-> 0],
     [plot |-> "steering", dx |-> SIM_DT, dy |-> 0]}

Driven == IF drv.plot = "car" THEN car ELSE steering

InitPlot ==
    /\ InitApp
    /\ hist = <<>>
    /\ drv \in [plot : {"car", "steering"}, dx : {0}, dy : {0}]
    /\ base = <<Driven.default_xlim, Driven.default_ylim>>

InitFill ==
    /\ InitApp
    /\ hist = <<>>
    /\ drv \in Fills
    /\ base = <<Driven.default_xlim, Driven.default_ylim>>

\* a call of addPoint(x, y) on the driven plot
Plot_addPoint(x, y) ==
    /\ IF drv.plot = "car"
       THEN car' = addPoint(car, x, y) /\ steering' = steering
       ELSE steering' = addPoint(steering, x, y) /\ car' = car
    /\ hist' = Append(hist, <<x, y>>)
    /\ UNCHANGED <<appVars, drv, base>>

\* a call of clear() on the driven plot
Plot_clear ==
    /\ IF drv.plot = "car"
       THEN car' = clear(car) /\ steering' = steering
       ELSE steering' = clear(steering) /\ car' = car
    /\ hist' = <<>>
    /\ base' = <<Driven.default_xlim, Driven.default_ylim>>
    /\ UNCHANGED <<appVars, drv>>

\* a call of changeScale(k); the program calls it on the car plot only
Plot_changeScale(k) ==
    /\ drv.plot = "car"
    /\ car' = changeScale(car, k)
    /\ UNCHANGED <<appVars, steering, hist, drv, base>>

NextPlot ==
    \/ Len(hist) < MaxPts /\ \E pt \in Points(drv.plot) : Plot_addPoint(pt[1], pt[2])
    \/ Plot_clear
    \/ \E k \in ZOOM_MIN..ZOOM_MAX : Plot_changeScale(k)

SpecPlot == InitPlot /\ [][NextPlot]_vars

NextFill ==
    \/ Len(hist) < MaxAppends /\ Plot_addPoint(Last(Driven.x) + drv.dx, Last(Driven.y) + drv.dy)
    \/ Plot_clear

SpecFill == InitFill /\ [][NextFill]_vars

-----------------------------------------------------------------------------
(* Session claims, checked under Spec *)

\* the session state a tick writes
session == <<t, prev_phi, car.x, car.y, steering.x, steering.y>>

\* the top frame is a timer callback about to execute its first statement
CallbackBegins ==
    IF stack = <<>> THEN FALSE
    ELSE Top.proc = "runSimulation" /\ Top.pc = 0 /\ Top.src = "after"

\* C1: a tick callback that was pending when pause() ran (it fires with the
\* running flag false) leaves t, prev_phi and both buffers unchanged.
C1_PausedCallbackIsNoOp ==
    [][(CallbackBegins /\ ~running /\ runSimulation_car) => session' = session]_vars

\* C2: at most one scheduled tick callback is pending at any time.
C2_OnePendingCallback == Len(timers) <= 1

\* the frames of ticks that have begun and not yet returned
TicksInProgress == {i \in 1..Len(stack) : stack[i].proc = "runSimulation" /\ stack[i].pc > 0}

\* C3: a tick never begins while another tick is between its first and its
\* last statement.
C3_TicksSequential == Cardinality(TicksInProgress) <= 1

\* C4: the angle a tick appends to the steering buffer is the angle that
\* tick computed the pose from.
C4_SteeringSnapshot ==
    [][runSimulation_steering => Deg2Rad(Last(steering'.y) \div SCALE) = Top.steering]_vars

-----------------------------------------------------------------------------
(* Buffer claims, checked under SpecFill *)

Min(a, b) == IF a < b THEN a ELSE b

\* every point the driven plot has held since its last clear: the origin, then
\* the appended points in order
Held == <<<<0, 0>>>> \o hist

\* the buffer as a sequence of points
Buffer(p) == [i \in 1..Len(p.x) |-> <<p.x[i], p.y[i]>>]

-----------------------------------------------------------------------------
(* Viewport claims, checked under SpecPlot *)

\* the step is a call of addPoint on the driven plot
Appended == Len(hist') = Len(hist) + 1

\* the step is a call of changeScale that changes the default limits
Rescaled == hist' = hist /\ Driven'.default_xlim # Driven.default_xlim

\* the window the scroll step sets around coordinate c, from default limits d
Window(c, d, g) == <<c - (d[2] - d[1] - g), c + g>>

In(c, lim) == lim[1] <= c /\ c <= lim[2]

\* C7 as stated: once the limits of an axis have been moved away from the
\* defaults, every later addPoint leaves the new coordinate inside them.
C7_EngagedContainsLast ==
    [][Appended =>
        /\ (Driven.xlim # base[1] => In(Last(Driven'.x), Driven'.xlim))
        /\ (Driven.ylim # base[2] => In(Last(Driven'.y), Driven'.ylim))]_vars

\* C7 amended: every addPoint whose coordinate plus scrollGap exceeds the
\* default upper limit of an axis leaves the new coordinate inside that
\* axis's limits.
C7_ScrolledContainsLast ==
    [][Appended =>
        LET g == Driven.scroll_gap
            cx == Last(Driven'.x)
            cy == Last(Driven'.y)
        IN  /\ (cx + g > Driven.default_xlim[2] => In(cx, Driven'.xlim))
            /\ (cy + g > Driven.default_ylim[2] => In(cy, Driven'.ylim))]_vars

\* scrolling was engaged before the last point, the last point scrolled again
C7_Witness ==
    /\ Len(hist) >= 2
    /\ hist[Len(hist) - 1][1] + Driven.scroll_gap > base[1][2]
    /\ Last(hist)[1] + Driven.scroll_gap > Driven.default_xlim[2]
    /\ Last(hist)[1] < hist[Len(hist) - 1][1]
    /\ In(Last(hist)[1], Driven.xlim)
    /\ Driven.xlim # base[1]

\* C8 as stated: addPoint changes the limits of an axis if and only if the
\* new coordinate plus scrollGap exceeds the current upper limit of that axis.
C8_ScrollAgainstCurrent ==
    [][Appended =>
        LET g == Driven.scroll_gap
        IN  /\ (Driven'.xlim # Driven.xlim) <=> (Last(Driven'.x) + g > Driven.xlim[2])
            /\ (Driven'.ylim # Driven.ylim) <=> (Last(Driven'.y) + g > Driven.ylim[2])]_vars

\* C8 amended: the test is against the default upper limit: if the new
\* coordinate plus scrollGap exceeds it, the axis's upper limit becomes the
\* coordinate plus scrollGap, whatever the current limits were; otherwise
\* the axis's limits are unchanged.
C8_ScrollAgainstDefault ==
    [][Appended =>
        LET g == Driven.scroll_gap
            cx == Last(Driven'.x)
            cy == Last(Driven'.y)
        IN  /\ IF cx + g > Driven.default_xlim[2]
               THEN Driven'.xlim[2] = cx + g
               ELSE Driven'.xlim = Driven.xlim
            /\ IF cy + g > Driven.default_ylim[2]
               THEN Driven'.ylim[2] = cy + g
               ELSE Driven'.ylim = Driven.ylim]_vars

\* the last point is below the one before it and below the upper limit that
\* point left, yet above the default threshold: the window moved down to it
C8_Witness ==
    /\ Len(hist) >= 2
    /\ Last(hist)[1] < hist[Len(hist) - 1][1]
    /\ hist[Len(hist) - 1][1] + Driven.scroll_gap > base[1][2]
    /\ Last(hist)[1] + Driven.scroll_gap > Driven.default_xlim[2]
    /\ Driven.xlim[2] = Last(hist)[1] + Driven.scroll_gap

\* C9: appending a coordinate c > hi - g, for default limits (lo, hi) and
\* scrollGap g, sets the axis's limits to (c - (hi - lo - g), c + g): the
\* upper limit is g above the point and the width is hi - lo.
C9_ScrollTrigger ==
    [][Appended =>
        LET g == Driven.scroll_gap
            dx == Driven.default_xlim
            dy == Driven.default_ylim
            cx == Last(Driven'.x)
            cy == Last(Driven'.y)
        IN  /\ cx > dx[2] - g =>
                /\ Driven'.xlim = <<cx - (dx[2] - dx[1] - g), cx + g>>
                /\ Driven'.xlim[2] - cx = g
                /\ Driven'.xlim[2] - Driven'.xlim[1] = dx[2] - dx[1]
            /\ cy > dy[2] - g =>
                /\ Driven'.ylim = <<cy - (dy[2] - dy[1] - g), cy + g>>
                /\ Driven'.ylim[2] - cy = g
                /\ Driven'.ylim[2] - Driven'.ylim[1] = dy[2] - dy[1]]_vars

\* both axes of the car plot have scrolled to the last point
C9_Witness ==
    /\ hist # <<>>
    /\ drv.plot = "car"
    /\ Last(hist)[1] > Driven.default_xlim[2] - Driven.scroll_gap
    /\ Last(hist)[2] > Driven.default_ylim[2] - Driven.scroll_gap
    /\ Driven.xlim = Window(Last(hist)[1], Driven.default_xlim, Driven.scroll_gap)
    /\ Driven.ylim = Window(Last(hist)[2], Driven.default_ylim, Driven.scroll_gap)

\* the scroll step as it would be with the default limits of the last clear
ScrollFrom(c, d, g, lim) == IF c + g > d[2] THEN Window(c, d, g) ELSE lim

\* C10 as stated: changeScale does not move the current limits, and until
\* the next clear() addPoint scrolls by the defaults of the last clear.
C10_NoEffectUntilClear ==
    [][/\ Rescaled => (Driven'.xlim = Driven.xlim /\ Driven'.ylim = Driven.ylim)
       /\ Appended =>
            /\ Driven'.xlim = ScrollFrom(Last(Driven'.x), base[1], Driven.scroll_gap, Driven.xlim)
            /\ Driven'.ylim = ScrollFrom(Last(Driven'.y), base[2], Driven.scroll_gap, Driven.ylim)]_vars

\* C10 amended: changeScale changes the default limits only (current limits
\* and buffer stay); the next addPoint already scrolls by the new defaults,
\* both in its threshold and in the window width.
C10_EffectOnNextAppend ==
    [][/\ Rescaled =>
            /\ Driven'.xlim = Driven.xlim /\ Driven'.ylim = Driven.ylim
            /\ Driven'.x = Driven.x /\ Driven'.y = Driven.y
       /\ (Appended /\ <<Driven.default_xlim, Driven.default_ylim>> # base) =>
            /\ Driven'.xlim = ScrollFrom(Last(Driven'.x), Driven.default_xlim,
                                         Driven.scroll_gap, Driven.xlim)
            /\ Driven'.ylim = ScrollFrom(Last(Driven'.y), Driven.default_ylim,
                                         Driven.scroll_gap, Driven.ylim)]_vars

\* the zoom changed after the last clear and the last point scrolled into a
\* window of the new width
C10_Witness ==
    /\ hist # <<>>
    /\ Driven.default_xlim # base[1]
    /\ Last(hist)[1] + Driven.scroll_gap > Driven.default_xlim[2]
    /\ Driven.xlim = Window(Last(hist)[1], Driven.default_xlim, Driven.scroll_gap)
    /\ Driven.xlim[2] - Driven.xlim[1] # base[1][2] - base[1][1]

-----------------------------------------------------------------------------
(* Re-derivation of the viewport, checked under SpecPlot *)

\* ceil(20 / k) for the four zoom levels, in metres
Radius == <<20, 10, 7, 5>>

Square(r) == <<-r, r>>

\* C11: for every zoom level k, changeScale(k) followed by clear() on the
\* position plot leaves the single origin point and default and current
\* limits (-ceil(20/k), ceil(20/k)) on both axes: clear()'s update step does
\* not scroll, also at k = 4 where scrollGap equals the upper default limit.
C11_Rederivation ==
    /\ \A k \in ZOOM_MIN..ZOOM_MAX :
          LET q == clear(changeScale(car, k))
              lim == Square(Radius[k] * SCALE)
          IN  /\ q.x = <<0>> /\ q.y = <<0>>
              /\ q.default_xlim = lim /\ q.default_ylim = lim
              /\ q.xlim = lim /\ q.ylim = lim
    /\ (drv.plot = "car" /\ hist = <<>> /\ base = <<car.default_xlim, car.default_ylim>>) =>
          /\ car.x = <<0>> /\ car.y = <<0>>
          /\ car.xlim = car.default_xlim /\ car.ylim = car.default_ylim
          /\ \E k \in ZOOM_MIN..ZOOM_MAX : car.default_xlim = Square(Radius[k] * SCALE)

\* changeScale(4) and then clear() have run on the car plot
C11_Witness ==
    /\ drv.plot = "car"
    /\ hist = <<>>
    /\ base = <<Square(5000), Square(5000)>>
    /\ car.default_xlim = Square(5000)
    /\ car.xlim = Square(5000) /\ car.ylim = Square(5000)
    /\ car.scroll_gap = car.default_xlim[2]
    /\ car.x = <<0>>

-----------------------------------------------------------------------------
(* The simulated clock, checked under Spec *)

\* the step in which resetSimulation stores t = 0 and prev_phi = 0 and returns
ResetEnds ==
    stack # <<>> /\ Top.proc = "resetSimulation" /\ Top.pc = 2 /\ stack' = Tail(stack)

\* the step in which runSimulation labels the time, steps t and returns
TickEnds ==
    stack # <<>> /\ Top.proc = "runSimulation" /\ Top.pc = 2 /\ stack' = Tail(stack)

\* C12: between two consecutive states t decreases only in the step in which
\* resetSimulation (run by start() and by 'r') sets it to 0; the end of every
\* tick adds exactly SIM_DT to it; no other step changes it.
C12_ElapsedTime ==
    [][ /\ (t' < t => ResetEnds /\ t' = 0)
        /\ (TickEnds => t' = t + SIM_DT)
        /\ (t' # t => ResetEnds \/ TickEnds) ]_vars

\* two ticks have run since the last reset and the session is Running
C12_Witness ==
    running /\ stack = <<>> /\ t = 2 * SIM_DT /\ Len(car.x) = 3

-----------------------------------------------------------------------------
(* start(), checked under Spec *)

\* the step in which the runSimulation() called by start() reads the session
TickOfStartBegins ==
    /\ stack # <<>> /\ Top.proc = "runSimulation" /\ Top.pc = 0 /\ Top.src = "start"
    /\ stack' # stack /\ Len(stack') = Len(stack)

AtDefaults(p) ==
    p.x = <<0>> /\ p.y = <<0>> /\ p.xlim = p.default_xlim /\ p.ylim = p.default_ylim

\* C13: the first tick executed by start() observes t = 0, prev_phi = 0, both
\* buffers holding only the origin and both viewports at their default
\* limits, and the session is Running.
C13_StartResetsFirst ==
    [][ TickOfStartBegins =>
          /\ t = 0 /\ prev_phi = 0
          /\ AtDefaults(car) /\ AtDefaults(steering)
          /\ running ]_vars

-----------------------------------------------------------------------------
(* pause(), checked under Spec *)

\* the steps in which pause() runs: the Pause button, 's' while running, 'r'
PauseRuns == ClickPause \/ (keyPressed_s /\ running) \/ keyPressed_r

\* C14: pause() changes only the running flag and the displayed status and
\* time (and the two buttons): it leaves t, prev_phi, both trajectory buffers
\* and both viewports unchanged.
C14_PauseFrame ==
    [][ PauseRuns =>
          /\ UNCHANGED <<t, prev_phi, car, steering>>
          /\ UNCHANGED <<ctrl_angle, ctrl_vel, ctrl_zoom, timers>>
          /\ running' = FALSE
          /\ var_status' = "Paused" /\ var_time' = "T: 0s" ]_vars

\* paused after at least one tick: the accumulator and the buffers are kept
C14_Witness ==
    /\ ~running /\ stack = <<>>
    /\ var_status = "Paused" /\ var_time = "T: 0s"
    /\ t = SIM_DT /\ Len(car.x) = 2 /\ Len(steering.x) = 2

-----------------------------------------------------------------------------
(* The control inputs, checked under Spec *)

controls == <<ctrl_vel, ctrl_angle, ctrl_zoom>>

\* a step in which the user acts on a key, a button or a slider
UserActs == nevents' = nevents + 1

\* the step in which resetSimulation sets the sliders and clears the car plot
ResetBegins ==
    /\ stack # <<>> /\ Top.proc = "resetSimulation" /\ Top.pc = 0
    /\ stack' # stack /\ Len(stack') = Len(stack)

\* a step of runSimulation itself (not an event dispatched by its flush)
TickSteps ==
    /\ stack # <<>> /\ Top.proc = "runSimulation"
    /\ stack' # stack /\ Len(stack') <= Len(stack)

\* C15 as stated: the control inputs change only in steps of the
\* external UI; no session operation (start, pause, reset, tick) writes them.
C15_CoreNeverWrites ==
    [][ controls' # controls => UserActs ]_vars

\* C15, amended: pause() and the ticks never write the control inputs, but
\* resetSimulation (run by start() and by 'r') sets velocity to V0, the angle
\* to 0 and the zoom level to INITIAL_ZOOM; every other change is the user's.
C15_ResetWritesControls ==
    [][ /\ (ResetBegins => controls' = <<V0, 0, INITIAL_ZOOM>>)
        /\ (controls' # controls => ResetBegins \/ UserActs)
        /\ (TickSteps => controls' = controls)
        /\ (PauseRuns => controls' = controls) ]_vars

\* start() has called resetSimulation while the velocity slider holds the
\* user's value
C15_Witness ==
    /\ Len(stack) = 2
    /\ stack[1].proc = "resetSimulation" /\ stack[1].pc = 0
    /\ stack[2].proc = "start"
    /\ running
    /\ ctrl_vel = VEL_MAX /\ ctrl_vel # V0

-----------------------------------------------------------------------------
(* The delay of the next tick, checked under Spec *)

Max(a, b) == IF a >= b THEN a ELSE b

\* C16: every delay handed to root.after is max(LOOP_DT - c, 0) for the
\* measured compute time c of the tick (in whole milliseconds), and so is
\* never negative, also when c exceeds the period.
C16_DelayClamped ==
    \A i \in 1..Len(timers) :
        /\ timers[i] >= 0
        /\ \E c \in CycleTimes : timers[i] = Max(Trunc(LOOP_DT * SCALE - c), 0)

-----------------------------------------------------------------------------
(* A scripted session: the user presses Play and moves the sliders between *)
(* ticks, the event loop runs every callback to its end before the next.   *)

\* ticks of one scripted session
MaxDriveTicks == 10

\* ticks a script spends turning
MaxTurn == 2

\* a script: from the second tick on the velocity slider is at `vel`; the
\* angle slider is at `angle` for `turn` ticks and back at 0 afterwards
Scripts == [vel : VEL_MIN..VEL_MAX, angle : AngleInputs, turn : 0..MaxTurn]

\* the sliders' values during the tick that begins at simulated time `time`
\* (the first tick follows resetSimulation: V0 and 0)
ScriptedVel(time) == IF time < SIM_DT THEN V0 ELSE drv.vel

ScriptedAngle(time) ==
    IF SIM_DT <= time /\ time < (1 + drv.turn) * SIM_DT THEN drv.angle ELSE 0

InitDrive ==
    /\ InitApp
    /\ hist = <<>>
    /\ drv \in Scripts
    /\ base = <<car.default_xlim, car.default_ylim>>

\* the user moves the two sliders between two ticks
Drive_set ==
    /\ stack = <<>> /\ running
    /\ <<ctrl_vel, ctrl_angle>> # <<ScriptedVel(t), ScriptedAngle(t)>>
    /\ ctrl_vel' = Clamp(ScriptedVel(t), VEL_MIN, VEL_MAX)
    /\ ctrl_angle' = Clamp(ScriptedAngle(t), ANGLE_MIN, ANGLE_MAX)
    /\ nevents' = nevents + 1
    /\ UNCHANGED <<running, t, prev_phi, ctrl_zoom, var_time, var_status, button_play,
                   button_pause, car, steering, stack, timers, hist, drv, base>>

\* the pending root.after callback expires with the sliders set
Drive_timer ==
    /\ stack = <<>> /\ timers # <<>>
    /\ <<ctrl_vel, ctrl_angle>> = <<ScriptedVel(t), ScriptedAngle(t)>>
    /\ t < MaxDriveTicks * SIM_DT
    /\ timers' = Tail(timers)
    /\ stack' = Push(Frame("runSimulation", 0, "after"))
    /\ UNCHANGED <<running, t, prev_phi, ctrl_angle, ctrl_vel, ctrl_zoom, var_time,
                   var_status, button_play, button_pause, car, steering, nevents, hist, drv, base>>

NextDrive ==
    \/ ClickPlay
    \/ start
    \/ start_runSimulation
    \/ resetSimulation_car
    \/ resetSimulation_steering
    \/ resetSimulation_state
    \/ runSimulation_car
    \/ runSimulation_steering
    \/ \E dt \in CycleTimes : runSimulation_after(dt)
    \/ Drive_set
    \/ Drive_timer

SpecDrive == InitDrive /\ [][NextDrive]_vars

\* the step in which runSimulation reads the sliders and appends the pose
TickBegins ==
    /\ stack # <<>> /\ Top.proc = "runSimulation" /\ Top.pc = 0
    /\ stack' # stack /\ Len(stack') = Len(stack)

\* velocity * dt of the tick about to run
Advance == Mul(ctrl_vel * SCALE, SIM_DT)

\* C17: a tick that runs with the steering angle at 0 leaves prev_phi as it
\* was and adds velocity * SIM_DT along that heading to the last position, for
\* every velocity of the slider; from a fresh start with the angle at 0
\* throughout, y stays 0, and at velocity 3 x advances by 0.3 m per tick and
\* is 3.0 m after 10 ticks.
C17_StraightLine ==
    /\ [][ TickBegins /\ ctrl_angle = 0 =>
             /\ prev_phi' = prev_phi
             /\ Len(car'.x) = Len(car.x) + 1
             /\ Last(car'.x) = Last(car.x) + Mul(Advance, Cos(prev_phi))
             /\ Last(car'.y) = Last(car.y) + Mul(Advance, Sin(prev_phi)) ]_vars
    /\ [](drv.turn = 0 =>
             /\ prev_phi = 0
             /\ \A i \in 2..Len(car.x) :
                   /\ car.y[i] = 0
                   /\ car.x[i] = V0 * SIM_DT + (i - 2) * drv.vel * SIM_DT
                   /\ drv.vel = 3 => car.x[i] = car.x[i - 1] + 3 * SIM_DT
             /\ (drv.vel = 3 /\ Len(car.x) = 11) => Last(car.x) = 3 * SCALE)

\* ten straight ticks at velocity 3 from a fresh start
C17_Witness ==
    /\ drv.turn = 0 /\ drv.vel = 3
    /\ stack = <<>> /\ running
    /\ t = 10 * SIM_DT
    /\ Len(car.x) = 11 /\ Last(car.x) = 3 * SCALE /\ Last(car.y) = 0

\* the poses <<phi, x, y>> of the first n ticks of the script, the start pose
\* first, whatever the timing
RECURSIVE PosesAfter(_)
PosesAfter(n) ==
    IF n = 0 THEN << <<0, 0, 0>> >>
    ELSE LET before == PosesAfter(n - 1)
             time == (n - 1) * SIM_DT
         IN  Append(before, Pose(ScriptedVel(time), Deg2Rad(ScriptedAngle(time)),
                                 before[n][1], before[n][2], before[n][3]))

\* C18: the sequence of poses of a session started by start() is a function
\* of the sequence of slider values and of the number of ticks alone: it is
\* the same whatever cycle time each tick measured.
C18_Determinism ==
    LET poses == PosesAfter(Len(car.x) - 1)
    IN  /\ prev_phi = poses[Len(car.x)][1]
        /\ \A i \in 1..Len(car.x) : <<car.x[i], car.y[i]>> = <<poses[i][2], poses[i][3]>>

\* a session that turned and whose last tick overran the period
C18_Witness ==
    /\ drv.turn = MaxTurn /\ drv.vel = VEL_MAX
    /\ stack = <<>> /\ running
    /\ Len(car.x) > 1 + MaxTurn
    /\ prev_phi # 0
    /\ timers = <<Trunc(LOOP_DT * SCALE - 130500)>>

-----------------------------------------------------------------------------
(* The time label while paused, checked under Spec *)

\* C19: in every state in which the session is Paused (running = FALSE, from
\* the return of pause() to the next start()) the time label shows "T: 0s".
C19_PausedShowsZero ==
    ~running => var_time = "T: 0s"

-----------------------------------------------------------------------------
(* Rescheduling, checked under the event loop with a fair scheduler: a      *)
(* handler that was called runs on, and an expired root.after callback is   *)
(* called once the loop can dispatch it. The user's events are not forced.  *)

\* runSimulation_car as the call stack shows it: the tick moves on from its
\* first segment
runSimulation_reads ==
    /\ stack # <<>> /\ Top.proc = "runSimulation" /\ Top.pc = 0
    /\ stack' = <<[Top EXCEPT !.pc = 1, !.steering = Deg2Rad(ctrl_angle)]>> \o Tail(stack)

HandlerSteps ==
    \/ start
    \/ start_runSimulation
    \/ keyPressed_r_start
    \/ resetSimulation_car
    \/ resetSimulation_steering
    \/ resetSimulation_state
    \/ runSimulation_reads
    \/ runSimulation_steering
    \/ \E dt \in CycleTimes : runSimulation_after(dt)

SpecLive ==
    /\ Spec
    /\ WF_stack(HandlerSteps)
    /\ WF_stack(\E i \in 1..Len(timers) : TimerFires(i))

\* C20: the end of a tick adds exactly one callback to the pending ones when
\* running is true there and none when it is false, and nothing else
\* schedules; so a Running session with no handler in progress always has a
\* callback pending, and unless it is paused its ticks go on (up to the
\* simulated time the model follows), also after a tick that overran.
C20_OneNextTick ==
    /\ [][ TickEnds =>
             /\ Len(timers') = Len(timers) + (IF running THEN 1 ELSE 0)
             /\ SubSeq(timers', 1, Len(timers)) = timers ]_vars
    /\ [][ Len(timers') > Len(timers) => TickEnds ]_vars
    /\ [](running /\ stack = <<>> => timers # <<>>)
    /\ (running ~> (~running \/ t >= MaxTicks * SIM_DT))

\* a Running session whose ticks have all overrun the period, one callback
\* pending
C20_Witness ==
    /\ running /\ stack = <<>>
    /\ t = MaxTicks * SIM_DT
    /\ Len(car.x) = MaxTicks + 1
    /\ timers = <<Trunc(LOOP_DT * SCALE - 130500)>>
    /\ timers[1] < 0

====
